---- MODULE Spec2Model ----
(***************************************************************************)
(* Cell Image Analyzer: the File Import tab (directory scan, extension     *)
(* filter, checkable file list, emitted selection) and the JSON settings   *)
(* store behind it.                                                        *)
(*                                                                         *)
(* Strings that the code takes apart (file names, extensions, paths) are   *)
(* sequences of one-character strings; the other strings are atoms.        *)
(***************************************************************************)
EXTENDS Integers, Sequences, FiniteSets, TLC

\* Largest number of entries of a directory in the scan specification.
MaxEntries == 3

\* Largest number of entries of the user's directory in the tab specification.
MaxListed == 2

\* Largest number of clicks on navigation buttons in a run.
MaxClicks == 4

-----------------------------------------------------------------------------
(* Strings *)

\* The characters in use, in code point order.
Ascii == <<".", "/", "1", "2", "B", "F", "I", "T",
           "a", "b", "c", "d", "e", "f", "g", "i", "j", "m", "n", "p", "r",
           "s", "t", "x", "y">>

Ord(c) == CHOOSE i \in 1..Len(Ascii) : Ascii[i] = c

\* str.lower on one character.
LowerChar(c) ==
    CASE c = "B" -> "b"
      [] c = "F" -> "f"
      [] c = "I" -> "i"
      [] c = "T" -> "t"
      [] OTHER -> c

\* str.lower
lower(s) == [i \in 1..Len(s) |-> LowerChar(s[i])]

\* a < b for Python strings: lexicographic by code point.
StrLess(a, b) ==
    \E k \in 1..Len(b) :
        /\ \A j \in 1..(k - 1) : j <= Len(a) /\ a[j] = b[j]
        /\ (k > Len(a) \/ Ord(a[k]) < Ord(b[k]))

\* str.rfind of a single character, 0-based, -1 when absent.
rfind(p, c) ==
    IF \E i \in 1..Len(p) : p[i] = c
    THEN (CHOOSE i \in 1..Len(p) :
              p[i] = c /\ \A j \in (i + 1)..Len(p) : p[j] # c) - 1
    ELSE -1

\* os.path.splitext(p)[1]: from the last dot on, unless the dot is before the
\* last separator or only dots precede it in the file name.
splitext_ext(p) ==
    LET sepIndex == rfind(p, "/")
        dotIndex == rfind(p, ".")
    IN  IF /\ dotIndex > sepIndex
           /\ \E k \in (sepIndex + 1)..(dotIndex - 1) : p[k + 1] # "."
        THEN SubSeq(p, dotIndex + 1, Len(p))
        ELSE <<>>

\* os.path.join(a, b) for a relative b.
join(a, b) ==
    IF a = <<>> \/ a[Len(a)] = "/" THEN a \o b ELSE a \o <<"/">> \o b

-----------------------------------------------------------------------------
(* The file system the tab looks at *)

\* The directories the user can pick, and the project root.
Dir1 == <<"/", "d", "1">>
Dir2 == <<"/">>
ProjectRoot == <<"/", "a", "p", "p">>
Dirs == {Dir1, Dir2, ProjectRoot}

\* What os.path.isdir and os.listdir find for the current directory.
DirStatus == {"valid", "notdir", "unreadable"}

\* A directory entry: its name and os.path.isfile of it.
Entry(n, f) == [name |-> n, isfile |-> f]

\* The entries of the user's directory, in the order os.listdir gives them.
DiskOrder == <<
    Entry(<<"B", ".", "T", "I", "F">>, TRUE),
    Entry(<<"d", ".", "p", "n", "g">>, FALSE),
    Entry(<<"c", ".", "p", "n", "g">>, TRUE),
    Entry(<<"a", ".", "t", "i", "f">>, TRUE),
    Entry(<<".", "p", "n", "g">>, TRUE) >>

Entries == {DiskOrder[i] : i \in 1..Len(DiskOrder)}

\* The results of os.listdir with at most n entries, in every order.
ListingsUpTo(n) ==
    {s \in UNION {[1..k -> Entries] : k \in 0..n} :
        \A i, j \in 1..Len(s) : i # j => s[i] # s[j]}

\* The same, in the order of DiskOrder only.
OrderedListingsUpTo(n) ==
    {s \in ListingsUpTo(n) :
        \A i, j \in 1..Len(s) :
            i < j => \E a, b \in 1..Len(DiskOrder) :
                        a < b /\ DiskOrder[a] = s[i] /\ DiskOrder[b] = s[j]}

\* What is in the other two directories.
Dir2Listing == <<Entry(<<"c", ".", "p", "n", "g">>, TRUE),
                 Entry(<<"B", ".", "T", "I", "F">>, TRUE)>>
RootListing == <<Entry(<<"m", "a", "i", "n", ".", "p", "y">>, TRUE),
                 Entry(<<"s", "r", "c">>, FALSE)>>

\* The directories' entries, with the user's directory holding `listing`.
Disk(listing) ==
    [d \in Dirs |-> CASE d = Dir1 -> listing
                      [] d = Dir2 -> Dir2Listing
                      [] d = ProjectRoot -> RootListing]

-----------------------------------------------------------------------------
(* FileImportTab *)

FILE_FORMATS == <<
    [name |-> "TIFF Images",
     exts |-> << <<".", "t", "i", "f">>, <<".", "t", "i", "f", "f">> >>],
    [name |-> "PNG Images",
     exts |-> << <<".", "p", "n", "g">> >>],
    [name |-> "JPEG Images",
     exts |-> << <<".", "j", "p", "g">>, <<".", "j", "p", "e", "g">> >>],
    [name |-> "ND2 Images",
     exts |-> << <<".", "n", "d", "2">> >>],
    [name |-> "All Supported",
     exts |-> << <<".", "t", "i", "f">>, <<".", "t", "i", "f", "f">>,
                 <<".", "p", "n", "g">>, <<".", "j", "p", "g">>,
                 <<".", "j", "p", "e", "g">>, <<".", "n", "d", "2">> >>] >>

\* format_combo indices.
FormatIndices == 0..(Len(FILE_FORMATS) - 1)

\* The index the combo box is constructed with: "All Supported".
DefaultIndex == Len(FILE_FORMATS) - 1

get_current_extensions(index) ==
    IF 0 <= index /\ index < Len(FILE_FORMATS)
    THEN FILE_FORMATS[index + 1].exts
    ELSE <<>>

\* `ext in extensions` on a Python list.
InList(x, list) == \E k \in 1..Len(list) : list[k] = x

\* The test of one directory entry in the scan loop.
Accepted(entry, extensions) ==
    entry.isfile /\ InList(lower(splitext_ext(entry.name)), extensions)

\* The scan loop: the accepted names, in os.listdir order.
RECURSIVE ScanFrom(_, _, _)
ScanFrom(listing, extensions, i) ==
    IF i > Len(listing) THEN <<>>
    ELSE (IF Accepted(listing[i], extensions)
          THEN <<listing[i].name>> ELSE <<>>)
         \o ScanFrom(listing, extensions, i + 1)

\* The key of files.sort.
SortKeyRaw(name) == name
SortKey(name) == lower(name)

\* list.sort is stable: an element goes after the elements that are not
\* greater than it.
InsertSorted(s, x) ==
    LET n == Cardinality({i \in 1..Len(s) :
                            ~StrLess(SortKey(x), SortKey(s[i]))})
    IN  SubSeq(s, 1, n) \o <<x>> \o SubSeq(s, n + 1, Len(s))

RECURSIVE SortFrom(_, _, _)
SortFrom(files, done, i) ==
    IF i > Len(files) THEN done
    ELSE SortFrom(files, InsertSorted(done, files[i]), i + 1)

sort(files) == SortFrom(files, <<>>, 1)

\* A list item as the rebuild adds it: checkable and unchecked.
NewItemChecked(filename) == [text |-> filename, checked |-> TRUE]
NewItem(filename) == [text |-> filename, checked |-> FALSE]

\* The exceptions the rebuild's try block catches.
CaughtNothing == {}
CaughtByRefresh == {"PermissionError"}

\* os.listdir on the current directory.
listdir(status, listing) ==
    IF status = "unreadable"
    THEN [exc |-> "PermissionError", names |-> <<>>]
    ELSE [exc |-> "none", names |-> listing]

\* The widget state a handler works on:
\*   file_list       the items of the QListWidget, in display order
\*   selected_label  the count shown by the "Selected: n files" label
\*   emitted         the lists files_selected has emitted in this handler
\*   raised          the exception that left the handler, or "none"

_get_selected_count(items) ==
    Cardinality({i \in 1..Len(items) : items[i].checked})

_update_selected_count(w) ==
    [w EXCEPT !.selected_label = _get_selected_count(w.file_list)]

RECURSIVE SelectedFrom(_, _, _)
SelectedFrom(items, dir, i) ==
    IF i > Len(items) THEN <<>>
    ELSE (IF items[i].checked THEN <<join(dir, items[i].text)>> ELSE <<>>)
         \o SelectedFrom(items, dir, i + 1)

get_selected_files_all(items, dir) ==
    [i \in 1..Len(items) |-> join(dir, items[i].text)]
get_selected_files(items, dir) == SelectedFrom(items, dir, 1)

_emit_selection_changed(w, dir) ==
    [w EXCEPT !.emitted = Append(@, get_selected_files(w.file_list, dir))]

_on_item_changed_count_only(w, dir) == _update_selected_count(w)
_on_item_changed(w, dir) ==
    _emit_selection_changed(_update_selected_count(w), dir)

\* QListWidgetItem.setCheckState on an item of the list: the list emits
\* itemChanged, and so runs _on_item_changed, when the state changes.
setCheckState(w, dir, i, value) ==
    IF w.file_list[i].checked = value THEN w
    ELSE _on_item_changed([w EXCEPT !.file_list[i].checked = value], dir)

RECURSIVE SetAllFrom(_, _, _, _, _)
SetAllFrom(w, dir, value, i, count) ==
    IF i > count THEN w
    ELSE SetAllFrom(setCheckState(w, dir, i, value), dir, value, i + 1, count)

_on_select_all(w, dir) ==
    _emit_selection_changed(
        _update_selected_count(
            SetAllFrom(w, dir, TRUE, 1, Len(w.file_list))), dir)

_on_clear_all_short(w, dir) ==
    _emit_selection_changed(
        _update_selected_count(
            SetAllFrom(w, dir, FALSE, 1, Len(w.file_list) - 1)), dir)
_on_clear_all(w, dir) ==
    _emit_selection_changed(
        _update_selected_count(
            SetAllFrom(w, dir, FALSE, 1, Len(w.file_list))), dir)

\* A rebuild that adds the files found below the items already listed.
_refresh_file_list_kept(w, status, listing, index) ==
    LET found == listdir(status, listing)
        files == sort(ScanFrom(found.names, get_current_extensions(index), 1))
    IN  IF status = "notdir" \/ found.exc # "none" THEN w
        ELSE _update_selected_count(
                 [w EXCEPT !.file_list =
                     w.file_list \o [i \in 1..Len(files) |-> NewItem(files[i])]])

\* The items are made and checked off before they are added to the list, so
\* the rebuild emits no itemChanged.
_refresh_file_list(w, status, listing, index) ==
    LET cleared == [w EXCEPT !.file_list = <<>>]
        found == listdir(status, listing)
        files == sort(ScanFrom(found.names, get_current_extensions(index), 1))
    IN  IF status = "notdir" THEN cleared
        ELSE IF found.exc = "none"
        THEN _update_selected_count(
                 [cleared EXCEPT
                     !.file_list = [i \in 1..Len(files) |-> NewItem(files[i])]])
        ELSE IF found.exc \in CaughtByRefresh
        THEN _update_selected_count(cleared)
        ELSE [cleared EXCEPT !.raised = found.exc]

-----------------------------------------------------------------------------
(* Settings *)

\* Python values held in the settings: a str (its characters in s) or None.
Str(chars) == [t |-> "str", s |-> chars]
None == [t |-> "None", s |-> <<>>]

\* bool(v)
Truthy(v) == v.t = "str" /\ v.s # <<>>

Keys == {"last_directory", "window_state"}
Values == {Str(Dir1), Str(Dir2)}

EmptyMap == [k \in {} |-> None]

\* The mappings from some of the keys to values.
Maps == UNION {[ks -> Values] : ks \in SUBSET Keys}

\* A Python object held in Settings._settings: a dict (its items in map), or
\* what json.load makes of a JSON array ("list") or of null ("NoneType").
Dict(m) == [kind |-> "dict", map |-> m]

\* The settings file: absent; present and not openable; bytes that are not
\* UTF-8; text that is not JSON; or a JSON text with an object (its members in
\* map), an array or null at the top.
File(k) == [kind |-> k, map |-> EmptyMap]
ObjectFile(m) == [kind |-> "object", map |-> m]
SettingsFiles ==
    {File(k) : k \in {"missing", "unreadable", "undecodable", "malformed",
                      "array", "null"}}
    \cup {ObjectFile(m) : m \in Maps}

\* open(self._settings_file, 'r', encoding='utf-8') and json.load(f).
json_load(file) ==
    CASE file.kind = "unreadable"  -> [exc |-> "IOError", value |-> Dict(EmptyMap)]
      [] file.kind = "undecodable" -> [exc |-> "UnicodeDecodeError", value |-> Dict(EmptyMap)]
      [] file.kind = "malformed"   -> [exc |-> "JSONDecodeError", value |-> Dict(EmptyMap)]
      [] file.kind = "object"      -> [exc |-> "none", value |-> Dict(file.map)]
      [] file.kind = "array"       -> [exc |-> "none", value |-> [kind |-> "list", map |-> EmptyMap]]
      [] file.kind = "null"        -> [exc |-> "none", value |-> [kind |-> "NoneType", map |-> EmptyMap]]

\* json.dump(self._settings, f, indent=2) into the opened file.
json_dump(blob) ==
    CASE blob.kind = "dict"     -> ObjectFile(blob.map)
      [] blob.kind = "list"     -> File("array")
      [] blob.kind = "NoneType" -> File("null")

\* The exceptions _load_settings catches.
CaughtByLoad == {"JSONDecodeError", "IOError"}

\* Settings.__init__ and _load_settings: the blob, and the exception that
\* leaves the constructor.
_load_settings(file) ==
    IF file.kind = "missing" THEN [settings |-> Dict(EmptyMap), exc |-> "none"]
    ELSE LET got == json_load(file)
         IN  IF got.exc = "none" THEN [settings |-> got.value, exc |-> "none"]
             ELSE IF got.exc \in CaughtByLoad
             THEN [settings |-> Dict(EmptyMap), exc |-> "none"]
             ELSE [settings |-> Dict(EmptyMap), exc |-> got.exc]

\* How writing the file goes: written; open fails; the write fails after open
\* has truncated the file.
SaveOutcomes == {"ok", "open_failed", "write_failed"}

\* The exceptions _save_settings catches.
CaughtBySave == {"IOError"}

\* A save that writes nothing.
_save_settings_unwritten(blob, file, outcome) == [file |-> file, exc |-> "none"]

\* _save_settings: the file afterwards, and the exception that leaves it.
_save_settings(blob, file, outcome) ==
    LET exc == IF outcome = "ok" THEN "none" ELSE "IOError"
        after == CASE outcome = "ok"           -> json_dump(blob)
                   [] outcome = "open_failed"  -> file
                   [] outcome = "write_failed" -> File("malformed")
    IN  [file |-> after,
         exc |-> IF exc \in CaughtBySave THEN "none" ELSE exc]

\* Settings.get: self._settings.get(key, default)
get(blob, key, default) ==
    IF blob.kind = "dict"
    THEN [exc |-> "none",
          value |-> IF key \in DOMAIN blob.map THEN blob.map[key] ELSE default]
    ELSE [exc |-> "AttributeError", value |-> None]

\* dict.__setitem__
SetItem(m, key, value) ==
    [k \in DOMAIN m \cup {key} |-> IF k = key THEN value ELSE m[k]]

\* A set that reads the file again and writes its members with its own.
set_merging(blob, file, key, value, outcome) ==
    IF blob.kind = "dict"
    THEN LET after == Dict(SetItem(blob.map, key, value))
             disk == _load_settings(file).settings.map
             merged == Dict([k \in DOMAIN disk \cup DOMAIN after.map |->
                               IF k \in DOMAIN after.map THEN after.map[k]
                               ELSE disk[k]])
             saved == _save_settings(merged, file, outcome)
         IN  [settings |-> after, file |-> saved.file, exc |-> saved.exc]
    ELSE [settings |-> blob, file |-> file, exc |-> "TypeError"]

\* Settings.set: self._settings[key] = value, then _save_settings().
set(blob, file, key, value, outcome) ==
    IF blob.kind = "dict"
    THEN LET after == Dict(SetItem(blob.map, key, value))
             saved == _save_settings(after, file, outcome)
         IN  [settings |-> after, file |-> saved.file, exc |-> saved.exc]
    ELSE [settings |-> blob, file |-> file, exc |-> "TypeError"]

\* Settings.get_last_directory; isdir is os.path.isdir(last_dir).
get_last_directory(blob, isdir) ==
    LET last_dir == get(blob, "last_directory", None)
    IN  IF last_dir.exc # "none" THEN [exc |-> last_dir.exc, value |-> <<>>]
        ELSE IF Truthy(last_dir.value) /\ isdir
        THEN [exc |-> "none", value |-> last_dir.value.s]
        ELSE [exc |-> "none", value |-> ProjectRoot]

\* A set_last_directory that stores the directory under another key.
set_last_directory_elsewhere(blob, file, directory, outcome) ==
    set(blob, file, "window_state", Str(directory), outcome)

set_last_directory(blob, file, directory, outcome) ==
    set(blob, file, "last_directory", Str(directory), outcome)

-----------------------------------------------------------------------------
(* Navigation *)

WorkspaceID == {"input", "analysis", "output"}

DEFAULT_WORKSPACE == "input"

\* NavButton.__init__ of each button of the side bar: none is active.
NewButtons == [id \in WorkspaceID |-> FALSE]

\* A set_active that leaves the button as it is.
set_active_ignored(buttons, id, active) == buttons

\* NavButton.set_active on the button of workspace id.
set_active(buttons, id, active) == [buttons EXCEPT ![id] = active]

\* A click handler that emits whether the button is active or not.
_on_clicked_any(buttons, id) ==
    [is_active |-> buttons, workspace_selected |-> <<id>>]

\* NavButton._on_clicked of the button of workspace id: the buttons as its own
\* statements leave them, and what workspace_selected emits.
_on_clicked(buttons, id) ==
    [is_active |-> buttons,
     workspace_selected |-> IF ~buttons[id] THEN <<id>> ELSE <<>>]

\* The main window's slot of workspace_selected: the previous workspace is
\* deactivated, the selected one activated, and the buttons are set so that
\* the selected one's alone is active.
switch_workspace(buttons, current, id) ==
    [is_active |-> set_active(set_active(buttons, current, FALSE), id, TRUE),
     current_workspace |-> id,
     hooks |-> <<[hook |-> "on_deactivated", workspace |-> current],
                 [hook |-> "on_activated", workspace |-> id]>>]

-----------------------------------------------------------------------------
(* State *)

VARIABLES
    dir1_entries,       \* the entries of the user's directory, in os.listdir order
    current_directory,  \* FileImportTab._current_directory
    currentIndex,       \* format_combo.currentIndex()
    file_list,          \* the items of file_list: [text, checked], in display order
    selected_label,     \* the n of selected_label's "Selected: n files"
    emitted,            \* the lists files_selected emitted during the last handler
    last_emitted,       \* <<>> before any emission, else <<the list emitted last>>
    raised,             \* the exception that left the last operation, or "none"
    last_op,            \* the operation that ran last
    pre_checked,        \* how many items were checked when the last handler began
    dir_status,         \* what the last rebuild found the current directory to be
    settings,           \* Settings._settings
    settings_file,      \* the content of app_settings.json
    loaded_from,        \* the kind of content the file had when it was loaded
    was_set,            \* the keys a client has set since, each with its last value
    last_call,          \* a client's last call of the store: key, argument, result,
                        \* and what os.path.isdir said during it
    saved,              \* how the save of the last operation went, "none" without one
    loaded_settings,    \* Settings._settings as _load_settings left it
    peer_settings,      \* Settings._settings of a second process on the same file
    peer_was_set,       \* the keys the second process has set, each with its last value
    last_setter,        \* the process whose set ran last: "self", "peer" or "none"
    is_active,          \* NavButton._is_active of each button, by workspace id
    current_workspace,  \* the workspace the main window shows
    workspace_selected, \* what workspace_selected emitted during the last click
    hooks,              \* the workspace hooks the last click called, in order
    clicks,             \* the buttons clicked so far, by workspace id
    left_active         \* the clicked button's _is_active when _on_clicked's own
                        \* statements had run

vars == <<dir1_entries, current_directory, currentIndex, file_list, selected_label,
          emitted, last_emitted, raised, last_op, pre_checked, dir_status,
          settings, settings_file, loaded_from, was_set, last_call, saved,
          loaded_settings, peer_settings, peer_was_set, last_setter,
          is_active, current_workspace, workspace_selected, hooks, clicks,
          left_active>>

tab_vars == <<dir1_entries, current_directory, currentIndex, file_list, selected_label,
              emitted, last_emitted, pre_checked, dir_status>>

store_vars == <<settings, settings_file, loaded_from, was_set, last_call,
                loaded_settings>>

peer_vars == <<peer_settings, peer_was_set, last_setter>>

nav_vars == <<is_active, current_workspace, workspace_selected, hooks, clicks,
              left_active>>

NoCall == [key |-> "", arg |-> None, ret |-> None, isdir |-> FALSE]

\* The widget state at the start of a handler.
Widgets == [file_list |-> file_list, selected_label |-> selected_label,
            emitted |-> <<>>, raised |-> "none"]

\* The widget state a handler leaves behind.
Leave(w) ==
    /\ file_list' = w.file_list
    /\ selected_label' = w.selected_label
    /\ emitted' = w.emitted
    /\ last_emitted' = IF w.emitted = <<>> THEN last_emitted
                       ELSE <<w.emitted[Len(w.emitted)]>>
    /\ raised' = w.raised
    /\ pre_checked' = _get_selected_count(file_list)

\* No second process runs.
NoPeer ==
    /\ peer_settings = Dict(EmptyMap)
    /\ peer_was_set = EmptyMap
    /\ last_setter = "none"

\* The main window as constructed: the default workspace is shown and its
\* button set active.
WindowShown ==
    /\ is_active = set_active(NewButtons, DEFAULT_WORKSPACE, TRUE)
    /\ current_workspace = DEFAULT_WORKSPACE
    /\ workspace_selected = <<>>
    /\ hooks = <<>>
    /\ clicks = <<>>
    /\ left_active = FALSE

-----------------------------------------------------------------------------
(* The File Import tab *)

\* os.path.isdir has just held of the directory, or a dialog has just
\* returned it.
ExistingStatus == {"valid", "unreadable"}

\* Settings() at import, then FileImportTab._init_ui, with the settings file
\* holding `file` and the user's directory `listing`.
StartTab(file, listing, isdir, status) ==
    LET loaded == _load_settings(file)
        dir == get_last_directory(loaded.settings, isdir)
        w == _refresh_file_list(
                 [file_list |-> <<>>, selected_label |-> 0,
                  emitted |-> <<>>, raised |-> "none"],
                 status, Disk(listing)[dir.value], DefaultIndex)
    IN  /\ loaded.exc = "none" /\ dir.exc = "none"
        /\ dir1_entries = listing
        /\ settings_file = file
        /\ settings = loaded.settings
        /\ current_directory = dir.value
        /\ currentIndex = DefaultIndex
        /\ file_list = w.file_list
        /\ selected_label = w.selected_label
        /\ emitted = <<>>
        /\ last_emitted = <<>>
        /\ raised = w.raised
        /\ last_op = "init"
        /\ pre_checked = 0
        /\ dir_status = status
        /\ loaded_from = file.kind
        /\ was_set = EmptyMap
        /\ last_call = NoCall
        /\ saved = "none"
        /\ loaded_settings = loaded.settings
        /\ NoPeer
        /\ WindowShown

\* The settings file a session of the tab starts from: the user's directory
\* was the last one used.
TabStartFile == ObjectFile([k \in {"last_directory"} |-> Str(Dir1)])

\* The tab starts in the user's directory, or in the project root when the
\* user's directory is not there.
InitTab ==
    \E listing \in OrderedListingsUpTo(MaxListed),
       isdir \in BOOLEAN, status \in ExistingStatus :
        StartTab(TabStartFile, listing, isdir, status)

\* The Browse dialog is accepted with `directory`.
BrowseAccepted(directory, status, outcome) ==
    LET stored == set_last_directory(settings, settings_file, directory, outcome)
        w == IF stored.exc = "none"
             THEN _refresh_file_list(Widgets, status, Disk(dir1_entries)[directory],
                                     currentIndex)
             ELSE [Widgets EXCEPT !.raised = stored.exc]
    IN  /\ current_directory' = directory
        /\ settings' = stored.settings
        /\ settings_file' = stored.file
        /\ Leave(w)
        /\ dir_status' = IF stored.exc = "none" THEN status ELSE dir_status
        /\ saved' = IF stored.exc = "TypeError" THEN "none" ELSE outcome
        /\ last_op' = "browse"
        /\ UNCHANGED <<dir1_entries, currentIndex, loaded_from, was_set,
                       last_call, loaded_settings, peer_vars, nav_vars>>

\* The Browse dialog is cancelled: getExistingDirectory returns "".
BrowseCancelled == UNCHANGED vars

_on_browse_clicked ==
    \/ \E directory \in Dirs, status \in ExistingStatus,
          outcome \in SaveOutcomes :
           BrowseAccepted(directory, status, outcome)
    \/ BrowseCancelled

\* The user picks another entry of the format combo box.
_on_format_changed ==
    \E index \in FormatIndices, status \in DirStatus :
        /\ index # currentIndex
        /\ currentIndex' = index
        /\ Leave(_refresh_file_list(Widgets, status, Disk(dir1_entries)[current_directory],
                                    index))
        /\ dir_status' = status
        /\ last_op' = "format_changed"
        /\ saved' = "none"
        /\ UNCHANGED <<dir1_entries, current_directory, store_vars, peer_vars, nav_vars>>

\* The user clicks the check box of item i.
OnItemToggled ==
    \E i \in 1..Len(file_list) :
        /\ Leave(setCheckState(Widgets, current_directory, i,
                               ~file_list[i].checked))
        /\ last_op' = "item_changed"
        /\ saved' = "none"
        /\ UNCHANGED <<dir1_entries, current_directory, currentIndex, dir_status,
                       store_vars, peer_vars, nav_vars>>

OnSelectAll ==
    /\ Leave(_on_select_all(Widgets, current_directory))
    /\ last_op' = "select_all"
    /\ saved' = "none"
    /\ UNCHANGED <<dir1_entries, current_directory, currentIndex, dir_status,
                   store_vars, peer_vars, nav_vars>>

OnClearAll ==
    /\ Leave(_on_clear_all(Widgets, current_directory))
    /\ last_op' = "clear_all"
    /\ saved' = "none"
    /\ UNCHANGED <<dir1_entries, current_directory, currentIndex, dir_status,
                   store_vars, peer_vars, nav_vars>>

Next ==
    \/ _on_browse_clicked
    \/ _on_format_changed
    \/ OnItemToggled
    \/ OnSelectAll
    \/ OnClearAll

Spec == InitTab /\ [][Next]_vars

-----------------------------------------------------------------------------
(* Properties of the File Import tab *)

\* The rebuilds of the file list.
Rebuilds == {"init", "browse", "format_changed"}

\* The entries of the current directory, and the active filter's extensions.
CurrentEntries ==
    {Disk(dir1_entries)[current_directory][i] :
        i \in 1..Len(Disk(dir1_entries)[current_directory])}

ActiveExtensions ==
    {FILE_FORMATS[currentIndex + 1].exts[k] :
        k \in 1..Len(FILE_FORMATS[currentIndex + 1].exts)}

\* The names of the regular files of the current directory whose lowercased
\* extension is one of the active filter's.
MatchingNames ==
    {e.name : e \in {x \in CurrentEntries :
                        /\ x.isfile
                        /\ lower(splitext_ext(x.name)) \in ActiveExtensions}}

\* The indices of the checked items, and the k-th of them from the top.
CheckedIndices == {i \in 1..Len(file_list) : file_list[i].checked}

NthChecked(k) ==
    CHOOSE i \in CheckedIndices :
        Cardinality({j \in CheckedIndices : j < i}) = k - 1

\* The paths of the checked items, from the top of the list down.
CheckedPaths ==
    [k \in 1..Cardinality(CheckedIndices) |->
        join(current_directory, file_list[NthChecked(k)].text)]

\* C1: after a rebuild on a valid directory the list shows exactly the names
\* of the directory's regular files whose lowercased extension is in the
\* active filter's set, each once, ordered case-insensitively by name.
ListShowsMatchingFilesSorted ==
    (last_op \in Rebuilds /\ dir_status = "valid") =>
        /\ {file_list[i].text : i \in 1..Len(file_list)} = MatchingNames
        /\ Len(file_list) = Cardinality(MatchingNames)
        /\ \A i, j \in 1..Len(file_list) :
             i < j => ~StrLess(lower(file_list[j].text), lower(file_list[i].text))

\* C1 happens: a rebuild listed two files that the raw code point order would
\* put the other way round, and left an entry of the directory out.
TwoFilesListedOutOfCodePointOrder ==
    /\ last_op \in Rebuilds /\ dir_status = "valid"
    /\ Len(file_list) >= 2
    /\ StrLess(file_list[2].text, file_list[1].text)
    /\ Cardinality(CurrentEntries) > Len(file_list)

\* C2: right after a change of the filter or of the directory no listed item
\* is checked and get_selected_files() is empty.
RebuildClearsChecks ==
    last_op \in {"browse", "format_changed"} =>
        /\ \A i \in 1..Len(file_list) : ~file_list[i].checked
        /\ get_selected_files(file_list, current_directory) = <<>>

\* C2 happens: items were checked when the filter or the directory changed,
\* and the rebuilt list has items.
RebuiltWhileChecked ==
    /\ last_op \in {"browse", "format_changed"}
    /\ pre_checked >= 1
    /\ Len(file_list) >= 1

\* C3: a click on an item's check box recomputes the count and emits
\* files_selected once, with the paths of all the items checked then.
ItemChangeEmitsFullSelection ==
    last_op = "item_changed" =>
        /\ selected_label = Cardinality(CheckedIndices)
        /\ emitted = <<CheckedPaths>>
        /\ last_emitted = <<CheckedPaths>>

\* C3 happens: the click checked a second item.
SecondItemChecked ==
    /\ last_op = "item_changed"
    /\ pre_checked = 1
    /\ Cardinality(CheckedIndices) = 2

\* C4: get_selected_files() is the path of each checked item and of no other,
\* in display order.
SelectedFilesAreCheckedPaths ==
    get_selected_files(file_list, current_directory) = CheckedPaths

\* C4 happens: an unchecked item is listed above a checked one.
CheckedBelowUnchecked ==
    \E i, j \in 1..Len(file_list) :
        i < j /\ ~file_list[i].checked /\ file_list[j].checked

\* C5: Select All and Clear All emit nothing while only some of the items are
\* updated: every list Select All emits is the full displayed list, and every
\* list Clear All emits is empty.
NoPartialSelectionEmitted ==
    /\ last_op \in {"select_all", "clear_all"} => Len(emitted) >= 1
    /\ last_op = "select_all" =>
         \A k \in 1..Len(emitted) :
             emitted[k] = [i \in 1..Len(file_list) |->
                             join(current_directory, file_list[i].text)]
    /\ last_op = "clear_all" =>
         \A k \in 1..Len(emitted) : emitted[k] = <<>>

\* C6: Select All and then Clear All leave the count at 0 and the empty list
\* as the last emission.
SelectAllThenClearAll ==
    [][(last_op = "select_all" /\ last_op' = "clear_all") =>
          (selected_label' = 0 /\ last_emitted' = << <<>> >>)]_vars

\* C6 happens: Clear All ran on a list of two or more items, all checked.
ClearedAfterAllChecked ==
    /\ last_op = "clear_all"
    /\ Len(file_list) >= 2
    /\ pre_checked = Len(file_list)

\* C7: the count on display is the number of checked items.
CountIsNumberChecked ==
    selected_label = Cardinality(CheckedIndices)

InitScan ==
    \E listing \in ListingsUpTo(MaxEntries), status \in ExistingStatus :
        StartTab(TabStartFile, listing, TRUE, status)

NextScan ==
    \/ _on_browse_clicked
    \/ _on_format_changed

ScanSpec == InitScan /\ [][NextScan]_vars

-----------------------------------------------------------------------------
(* The settings store on its own *)

\* The defaults the callers of get pass.
Defaults == {None, Str(ProjectRoot)}

\* `settings = Settings()` when the module is imported.
InitSettings ==
    \E file \in SettingsFiles :
        LET loaded == _load_settings(file)
        IN  /\ settings_file = file
            /\ settings = loaded.settings
            /\ raised = loaded.exc
            /\ loaded_from = file.kind
            /\ was_set = EmptyMap
            /\ last_call = NoCall
            /\ saved = "none"
            /\ loaded_settings = loaded.settings
            /\ NoPeer
            /\ WindowShown
            /\ last_op = "load"
            /\ dir1_entries = <<>>
            /\ current_directory = ProjectRoot
            /\ currentIndex = DefaultIndex
            /\ file_list = <<>>
            /\ selected_label = 0
            /\ emitted = <<>>
            /\ last_emitted = <<>>
            /\ pre_checked = 0
            /\ dir_status = "valid"

\* The import of the settings module succeeded.
Imported == ~(last_op = "load" /\ raised # "none")

SettingsGet ==
    \E key \in Keys, default \in Defaults :
        LET r == get(settings, key, default)
        IN  /\ Imported
            /\ last_call' = [key |-> key, arg |-> default, ret |-> r.value,
                              isdir |-> FALSE]
            /\ raised' = r.exc
            /\ last_op' = "get"
            /\ saved' = "none"
            /\ UNCHANGED <<settings, settings_file, loaded_from, was_set,
                           loaded_settings, tab_vars, peer_vars, nav_vars>>

SettingsSet ==
    \E key \in Keys, value \in Values, outcome \in SaveOutcomes :
        LET r == set(settings, settings_file, key, value, outcome)
        IN  /\ Imported
            /\ settings' = r.settings
            /\ settings_file' = r.file
            /\ was_set' = IF r.exc = "none" THEN SetItem(was_set, key, value)
                          ELSE was_set
            /\ last_call' = [key |-> key, arg |-> value, ret |-> None,
                              isdir |-> FALSE]
            /\ raised' = r.exc
            /\ last_op' = "set"
            /\ saved' = IF r.exc = "TypeError" THEN "none" ELSE outcome
            /\ last_setter' = IF r.exc = "none" THEN "self" ELSE last_setter
            /\ UNCHANGED <<loaded_from, loaded_settings, peer_settings,
                           peer_was_set, tab_vars, nav_vars>>

\* A client calls settings.get_last_directory(); isdir is what os.path.isdir
\* says of the stored path then.
SettingsGetLastDirectory ==
    \E isdir \in BOOLEAN :
        LET r == get_last_directory(settings, isdir)
        IN  /\ Imported
            /\ last_call' = [key |-> "last_directory", arg |-> None,
                              ret |-> Str(r.value), isdir |-> isdir]
            /\ raised' = r.exc
            /\ last_op' = "get_last_directory"
            /\ saved' = "none"
            /\ UNCHANGED <<settings, settings_file, loaded_from, was_set,
                           loaded_settings, tab_vars, peer_vars, nav_vars>>

NextSettings ==
    \/ SettingsGet
    \/ SettingsSet
    \/ SettingsGetLastDirectory

SettingsSpec == InitSettings /\ [][NextSettings]_vars

-----------------------------------------------------------------------------
(* Properties of the settings store *)

\* The key of the last call is in the mapping.
KeyPresent ==
    settings.kind = "dict" /\ last_call.key \in DOMAIN settings.map

\* C9: get returns the value a key was set to, whether the save succeeded or
\* not; no I/O error leaves set; get of a key never set returns the default.
SetTakesEffectInMemory ==
    /\ last_op = "set" => raised # "IOError"
    /\ last_op = "get" =>
         /\ raised = "none"
         /\ last_call.key \in DOMAIN was_set =>
              last_call.ret = was_set[last_call.key]
         /\ ~KeyPresent => last_call.ret = last_call.arg

\* The kinds of file content that make the load fail.
LoadFailures == {"missing", "unreadable", "undecodable", "malformed"}

\* C10: loading a missing, unreadable or invalid settings file raises nothing
\* and yields the empty mapping, and get then returns the default.
LoadFailureYieldsEmptyMapping ==
    loaded_from \in LoadFailures =>
        /\ last_op = "load" => (raised = "none" /\ settings = Dict(EmptyMap))
        /\ (last_op = "get" /\ last_call.key \notin DOMAIN was_set) =>
             (raised = "none" /\ last_call.ret = last_call.arg)

\* A last_directory is stored in the mapping.
LastDirectoryStored ==
    settings.kind = "dict" /\ "last_directory" \in DOMAIN settings.map

\* C11: get_last_directory() returns the stored last_directory when one is
\* stored and is an existing directory at the call, and the project root in
\* every other case, the stored path that is no directory never.
LastDirectoryOrDefaultRoot ==
    last_op = "get_last_directory" =>
        /\ raised = "none"
        /\ last_call.ret = IF LastDirectoryStored /\ last_call.isdir
                           THEN settings.map["last_directory"]
                           ELSE Str(ProjectRoot)

\* What a later json.load of the settings file returns.
Decoded == json_load(settings_file)

\* C12: after a set whose save succeeded the settings file decodes to exactly
\* the mapping in memory: the key just set with its value, and every other key
\* that was in memory before the call with the value it had.
SetPersistsWholeMapping ==
    [][(last_op' = "set" /\ saved' = "ok") =>
          /\ Decoded'.exc = "none"
          /\ Decoded'.value = settings'
          /\ Decoded'.value.kind = "dict"
          /\ DOMAIN Decoded'.value.map = DOMAIN settings.map \cup {last_call'.key}
          /\ Decoded'.value.map[last_call'.key] = last_call'.arg
          /\ \A k \in DOMAIN settings.map \ {last_call'.key} :
                Decoded'.value.map[k] = settings.map[k]]_vars

\* C12 happens: a set was saved while the mapping held another key, loaded
\* from the file and never set since.
SavedBesideLoadedKey ==
    /\ last_op = "set" /\ saved = "ok"
    /\ loaded_from = "object"
    /\ \E k \in DOMAIN settings.map : k \notin DOMAIN was_set

-----------------------------------------------------------------------------
(* Sessions of the File Import tab, one process after the other *)

\* The application is closed and started again: Settings() loads the file the
\* earlier session left, and FileImportTab._init_ui asks it for the last
\* directory. isdir is what os.path.isdir says of the stored path now.
LaterSession ==
    \E isdir \in BOOLEAN, status \in ExistingStatus :
        LET loaded == _load_settings(settings_file)
            dir == get_last_directory(loaded.settings, isdir)
            w == _refresh_file_list(
                     [file_list |-> <<>>, selected_label |-> 0,
                      emitted |-> <<>>, raised |-> "none"],
                     status, Disk(dir1_entries)[dir.value], DefaultIndex)
        IN  /\ loaded.exc = "none" /\ dir.exc = "none"
            /\ settings' = loaded.settings
            /\ current_directory' = dir.value
            /\ currentIndex' = DefaultIndex
            /\ file_list' = w.file_list
            /\ selected_label' = w.selected_label
            /\ emitted' = <<>>
            /\ last_emitted' = <<>>
            /\ raised' = w.raised
            /\ last_op' = "restart"
            /\ pre_checked' = 0
            /\ dir_status' = status
            /\ loaded_from' = settings_file.kind
            /\ was_set' = EmptyMap
            /\ last_call' = [key |-> "last_directory", arg |-> None,
                              ret |-> Str(dir.value), isdir |-> isdir]
            /\ saved' = "none"
            /\ loaded_settings' = loaded.settings
            /\ UNCHANGED <<dir1_entries, settings_file, peer_vars, nav_vars>>

NextSession ==
    \/ _on_browse_clicked
    \/ LaterSession

SessionSpec == InitTab /\ [][NextSession]_vars

\* The session ends right after an accepted Browse, and the next one starts.
RestartAfterBrowse ==
    last_op = "browse" /\ raised = "none" /\ last_op' = "restart"

\* The last_directory the settings file holds: <<>> when it holds none.
FileLastDirectory ==
    IF /\ Decoded.exc = "none"
       /\ Decoded.value.kind = "dict"
       /\ "last_directory" \in DOMAIN Decoded.value.map
    THEN <<Decoded.value.map["last_directory"].s>>
    ELSE <<>>

\* C13: after Browse accepted a directory, a tab constructed in a later
\* process starts in that directory if the save succeeded and the directory is
\* still there, and in the project root otherwise.
LastDirectoryElseRootInLaterSession ==
    [][RestartAfterBrowse =>
          current_directory' = IF saved = "ok" /\ last_call'.isdir
                               THEN current_directory
                               ELSE ProjectRoot]_vars

\* C13, amended: a save that succeeded left the accepted directory in the
\* file; the later tab starts in the directory the file holds if that is a
\* directory then, which after a failed save is the one stored before, and in
\* the project root when the file holds none or it is gone.
LastDirectoryOfFileInLaterSession ==
    [][RestartAfterBrowse =>
          /\ saved = "ok" => FileLastDirectory = <<current_directory>>
          /\ current_directory' = IF FileLastDirectory # <<>> /\ last_call'.isdir
                                   THEN FileLastDirectory[1]
                                   ELSE ProjectRoot]_vars

\* C13 happens: a later session started in the second directory, which only
\* a Browse of the earlier session can have stored.
LaterSessionStartedInBrowsedDirectory ==
    /\ last_op = "restart"
    /\ current_directory = Dir2
    /\ last_call.isdir

-----------------------------------------------------------------------------
(* The navigation of the main window *)

\* The main window is shown; the tab and the settings store are left alone.
InitNav ==
    /\ WindowShown
    /\ NoPeer
    /\ settings_file = File("missing")
    /\ settings = Dict(EmptyMap)
    /\ loaded_settings = Dict(EmptyMap)
    /\ loaded_from = "missing"
    /\ was_set = EmptyMap
    /\ last_call = NoCall
    /\ saved = "none"
    /\ raised = "none"
    /\ last_op = "shown"
    /\ dir1_entries = <<>>
    /\ current_directory = ProjectRoot
    /\ currentIndex = DefaultIndex
    /\ file_list = <<>>
    /\ selected_label = 0
    /\ emitted = <<>>
    /\ last_emitted = <<>>
    /\ pre_checked = 0
    /\ dir_status = "valid"

\* The user clicks the navigation button of workspace id: _on_clicked runs,
\* and the window's slot runs inside each emission of workspace_selected.
NavClicked(id) ==
    LET clicked == _on_clicked(is_active, id)
        shown == IF clicked.workspace_selected = <<>>
                 THEN [is_active |-> clicked.is_active,
                       current_workspace |-> current_workspace,
                       hooks |-> <<>>]
                 ELSE switch_workspace(clicked.is_active, current_workspace,
                                       clicked.workspace_selected[1])
    IN  /\ Len(clicks) < MaxClicks
        /\ clicks' = Append(clicks, id)
        /\ workspace_selected' = clicked.workspace_selected
        /\ left_active' = clicked.is_active[id]
        /\ is_active' = shown.is_active
        /\ current_workspace' = shown.current_workspace
        /\ hooks' = shown.hooks
        /\ last_op' = "clicked"
        /\ UNCHANGED <<tab_vars, store_vars, peer_vars, saved, raised>>

NextNav == \E id \in WorkspaceID : NavClicked(id)

NavSpec == InitNav /\ [][NextNav]_vars

\* The buttons that are active.
ActiveButtons == {id \in WorkspaceID : is_active[id]}

\* C14: exactly one navigation button is active, the one of the workspace
\* shown; a selection deactivates the workspace shown before and activates
\* the selected one, which is then the one shown.
ExactlyOneWorkspaceActive ==
    /\ ActiveButtons = {current_workspace}
    /\ hooks # <<>> =>
         /\ hooks = <<[hook |-> "on_deactivated", workspace |-> hooks[1].workspace],
                      [hook |-> "on_activated", workspace |-> current_workspace]>>
         /\ hooks[1].workspace # current_workspace
         /\ clicks[Len(clicks)] = current_workspace

\* C14 happens: after several selections a workspace other than the default
\* one is shown.
SelectedAwayFromDefault ==
    /\ Len(clicks) >= 3
    /\ hooks # <<>>
    /\ current_workspace # DEFAULT_WORKSPACE

\* C18: a click on a button that is not active emits workspace_selected once,
\* with the button's workspace id, and the click handler's own statements
\* leave the button inactive; a click on the active button emits nothing and
\* changes nothing.
ClickEmitsOnlyWhenInactive ==
    [][clicks' # clicks =>
          LET id == clicks'[Len(clicks')]
          IN  IF ~is_active[id]
              THEN workspace_selected' = <<id>> /\ ~left_active'
              ELSE /\ workspace_selected' = <<>>
                   /\ left_active'
                   /\ is_active' = is_active]_vars

\* C18 happens: the active button was clicked after another had been.
ActiveButtonClicked ==
    /\ Len(clicks) >= 2
    /\ workspace_selected = <<>>
    /\ clicks[Len(clicks)] # DEFAULT_WORKSPACE

-----------------------------------------------------------------------------
(* Two processes on one settings file *)

\* Both processes import the settings module while the file holds `file`.
InitShared ==
    \E file \in SettingsFiles :
        LET loaded == _load_settings(file)
        IN  /\ settings_file = file
            /\ settings = loaded.settings
            /\ peer_settings = loaded.settings
            /\ raised = loaded.exc
            /\ loaded_from = file.kind
            /\ loaded_settings = loaded.settings
            /\ was_set = EmptyMap
            /\ peer_was_set = EmptyMap
            /\ last_setter = "none"
            /\ last_call = NoCall
            /\ saved = "none"
            /\ last_op = "load"
            /\ dir1_entries = <<>>
            /\ current_directory = ProjectRoot
            /\ currentIndex = DefaultIndex
            /\ file_list = <<>>
            /\ selected_label = 0
            /\ emitted = <<>>
            /\ last_emitted = <<>>
            /\ pre_checked = 0
            /\ dir_status = "valid"
            /\ WindowShown

\* The second process calls settings.set(key, value).
PeerSet ==
    \E key \in Keys, value \in Values, outcome \in SaveOutcomes :
        LET r == set(peer_settings, settings_file, key, value, outcome)
        IN  /\ Imported
            /\ peer_settings' = r.settings
            /\ settings_file' = r.file
            /\ peer_was_set' = IF r.exc = "none"
                               THEN SetItem(peer_was_set, key, value)
                               ELSE peer_was_set
            /\ last_setter' = IF r.exc = "none" THEN "peer" ELSE last_setter
            /\ last_call' = [key |-> key, arg |-> value, ret |-> None,
                              isdir |-> FALSE]
            /\ raised' = r.exc
            /\ last_op' = "set"
            /\ saved' = IF r.exc = "TypeError" THEN "none" ELSE outcome
            /\ UNCHANGED <<settings, was_set, loaded_from, loaded_settings,
                           tab_vars, nav_vars>>

NextShared ==
    \/ SettingsSet
    \/ PeerSet

SharedSpec == InitShared /\ [][NextShared]_vars

\* Both processes have set a key, and the save of the last set succeeded.
BothHaveSet ==
    was_set # EmptyMap /\ peer_was_set # EmptyMap /\ saved = "ok"

\* The mapping of the process that saved last, and the keys that only the
\* other process has set.
LastSaverSettings == IF last_setter = "self" THEN settings ELSE peer_settings

SetOnlyByOther ==
    IF last_setter = "self" THEN DOMAIN peer_was_set \ DOMAIN was_set
    ELSE DOMAIN was_set \ DOMAIN peer_was_set

DisplayedNames == {file_list[i].text : i \in 1..Len(file_list)}

\* C16: every path get_selected_files() returns is the current directory
\* joined with a name on display, and every name on display is the name of a
\* regular file of the current directory whose extension is in the active
\* filter's set.
SelectionWithinFilteredListing ==
    /\ \A k \in 1..Len(get_selected_files(file_list, current_directory)) :
         \E name \in DisplayedNames :
             get_selected_files(file_list, current_directory)[k]
                 = join(current_directory, name)
    /\ DisplayedNames \subseteq MatchingNames

\* C16 happens: after the directory and the filter have changed an item is
\* checked, and the filter keeps an entry of the directory out of the list.
CheckedAfterDirectoryAndFilterChange ==
    /\ last_op = "item_changed"
    /\ current_directory = Dir2
    /\ currentIndex # DefaultIndex
    /\ CheckedIndices # {}
    /\ Cardinality(CurrentEntries) > Len(file_list)

\* The contents of the settings file that are text: no file, text that is not
\* JSON, a JSON object, and JSON with something else at the top.
TextContents == {"missing", "malformed", "object", "array", "null"}

\* C17: whatever text the settings file held at the load, the blob in memory
\* is a mapping, and no get and no set fails on it.
SettingsBlobIsMapping ==
    loaded_from \in TextContents =>
        /\ settings.kind = "dict"
        /\ last_op \in {"get", "set"} => raised = "none"

\* C19: once a selection has been emitted, the list emitted last is what
\* get_selected_files() returns after every handler.
LastEmissionIsCurrentSelection ==
    last_emitted # <<>> =>
        last_emitted = <<get_selected_files(file_list, current_directory)>>

====
